---- MODULE Spec2Model ----
(***************************************************************************)
(* A model of egui-scale (src/src/lib.rs): the EguiScale trait and its     *)
(* implementations for f32, u8, i8, Vec2, CornerRadius, Margin, [T],       *)
(* Shadow, Stroke, WidgetVisuals, Interaction, Widgets, TextCursorStyle,   *)
(* Visuals, ScrollStyle, Spacing, FontId, Style, Option<T> and Frame.      *)
(*                                                                         *)
(* f32 values are IEEE-754 binary32 numbers, written as records            *)
(*   [k |-> "nan" | "inf" | "fin", s |-> sign bit, m |-> mantissa, e]      *)
(* where a finite value is (-1)^s * m * 2^e with m odd (m = 0 for a zero). *)
(* Multiplication and addition round to nearest, ties to even, to 24       *)
(* significant bits, with gradual underflow below 2^-126 and overflow to   *)
(* infinity above (2^24 - 1) * 2^104.                                      *)
(***************************************************************************)
EXTENDS Integers, Sequences, FiniteSets, TLC

VARIABLES obj, prev, orig, factors

vars == <<obj, prev, orig, factors>>

(***************************************************************************)
(* binary32 arithmetic                                                     *)
(***************************************************************************)
Max(a, b) == IF a >= b THEN a ELSE b

Min(a, b) == IF a <= b THEN a ELSE b

RECURSIVE BitLen(_)
BitLen(n) == IF n = 0 THEN 0 ELSE 1 + BitLen(n \div 2)

NaN == [k |-> "nan", s |-> 0, m |-> 0, e |-> 0]

Inf(s) == [k |-> "inf", s |-> s, m |-> 0, e |-> 0]

Zero(s) == [k |-> "fin", s |-> s, m |-> 0, e |-> 0]

\* the finite value (-1)^s * m * 2^e, m > 0, in canonical form (m odd);
\* infinity when it exceeds the largest binary32 number
RECURSIVE Normalise(_, _, _)
Normalise(s, m, e) ==
    IF m = 0 THEN Zero(s)
    ELSE IF m % 2 = 0 THEN Normalise(s, m \div 2, e + 1)
    ELSE IF e + BitLen(m) - 1 > 127 THEN Inf(s)
    ELSE [k |-> "fin", s |-> s, m |-> m, e |-> e]

\* (-1)^s * m * 2^e (m > 0 an integer) rounded to binary32, nearest-even
Round(s, m, e) ==
    LET L == BitLen(m)
        E == Max(e + L - 24, -149)
        k == E - e
    IN  IF k <= 0 THEN Normalise(s, m, e)
        ELSE IF k >= L + 1 THEN Zero(s)
        ELSE LET q    == m \div (2 ^ k)
                 r    == m % (2 ^ k)
                 half == 2 ^ (k - 1)
                 up   == r > half \/ (r = half /\ q % 2 = 1)
             IN  Normalise(s, IF up THEN q + 1 ELSE q, E)

IsZero(x) == x.k = "fin" /\ x.m = 0

\* a * b for mantissas a, b < 2^24, as [m, e] with a * b = m * 2^e when the
\* product has at most 29 bits; a longer product keeps its 29 leading bits
\* and a sticky bit below them, which rounds to 24 bits as the product does
WideMul(a, b) ==
    LET a1  == a \div 4096
        a0  == a % 4096
        b1  == b \div 4096
        b0  == b % 4096
        mid == a1 * b0 + a0 * b1
        low == a0 * b0 + (mid % 4096) * 4096
        lo  == low % 16777216
        hi  == a1 * b1 + mid \div 4096 + low \div 16777216
        Lh  == BitLen(hi)
        j   == 29 - Lh
    IN  IF hi = 0 THEN [m |-> lo, e |-> 0]
        ELSE IF j >= 24 THEN [m |-> hi * 16777216 + lo, e |-> 0]
        ELSE LET top == hi * (2 ^ j) + lo \div (2 ^ (24 - j))
                 r   == lo % (2 ^ (24 - j))
             IN  [m |-> 2 * top + (IF r = 0 THEN 0 ELSE 1), e |-> 23 - j]

\* a * b in binary32
F32Mul(a, b) ==
    LET s == (a.s + b.s) % 2
    IN  IF a.k = "nan" \/ b.k = "nan" THEN NaN
        ELSE IF a.k = "inf" \/ b.k = "inf"
             THEN IF IsZero(a) \/ IsZero(b) THEN NaN ELSE Inf(s)
        ELSE IF a.m = 0 \/ b.m = 0 THEN Zero(s)
        ELSE LET p == WideMul(a.m, b.m)
             IN  Round(s, p.m, a.e + b.e + p.e)

\* |a| < |b| for finite non-zero a, b
MagLt(a, b) ==
    LET La == BitLen(a.m)
        Lb == BitLen(b.m)
        Lm == Max(La, Lb)
    IN  IF a.e + La # b.e + Lb THEN a.e + La < b.e + Lb
        ELSE a.m * (2 ^ (Lm - La)) < b.m * (2 ^ (Lm - Lb))

\* a < b in binary32 (false when either is NaN; -0 = +0)
F32Lt(a, b) ==
    IF a.k = "nan" \/ b.k = "nan" THEN FALSE
    ELSE IF a.k = "inf" THEN a.s = 1 /\ ~(b.k = "inf" /\ b.s = 1)
    ELSE IF b.k = "inf" THEN b.s = 0
    ELSE IF IsZero(a) THEN ~IsZero(b) /\ b.s = 0
    ELSE IF IsZero(b) THEN a.s = 1
    ELSE IF a.s # b.s THEN a.s = 1
    ELSE IF a.s = 0 THEN MagLt(a, b)
    ELSE MagLt(b, a)

\* a == b in binary32 (false when either is NaN; -0 == +0)
F32Eq(a, b) ==
    /\ a.k # "nan"
    /\ b.k # "nan"
    /\ (a = b \/ (IsZero(a) /\ IsZero(b)))

\* a + b in binary32
F32Add(a, b) ==
    IF a.k = "nan" \/ b.k = "nan" THEN NaN
    ELSE IF a.k = "inf"
         THEN IF b.k = "inf" /\ b.s # a.s THEN NaN ELSE a
    ELSE IF b.k = "inf" THEN b
    ELSE IF IsZero(a) /\ IsZero(b) THEN Zero(IF a.s = 1 /\ b.s = 1 THEN 1 ELSE 0)
    ELSE IF IsZero(a) THEN b
    ELSE IF IsZero(b) THEN a
    ELSE LET hi == IF a.e >= b.e THEN a ELSE b
             lo == IF a.e >= b.e THEN b ELSE a
             d  == hi.e - lo.e
             Lh == BitLen(hi.m)
         IN  IF Lh + d <= 29
             THEN LET H == hi.m * (2 ^ d)
                      M == IF hi.s = lo.s THEN H + lo.m ELSE H - lo.m
                  IN  IF M = 0 THEN Zero(0)
                      ELSE IF M > 0 THEN Round(hi.s, M, lo.e)
                      ELSE Round(lo.s, 0 - M, lo.e)
             ELSE \* lo lies below hi's 28th bit: keep it as a sticky bit
                  LET H  == hi.m * (2 ^ (28 - Lh))
                      k  == d + Lh - 28
                      lq == IF k >= 24 THEN 0 ELSE lo.m \div (2 ^ k)
                      S  == IF hi.s = lo.s THEN H + lq ELSE H - lq - 1
                  IN  Round(hi.s, 2 * S + 1, hi.e + Lh - 29)

\* f32::from(u8), f32::from(i8): exact
F32FromInt(v) ==
    IF v >= 0 THEN Normalise(0, v, 0) ELSE Normalise(1, 0 - v, 0)

\* min(trunc(|x|), cap) for finite x
TruncMag(x, cap) ==
    LET L == BitLen(x.m)
    IN  IF x.m = 0 THEN 0
        ELSE IF x.e >= 0
             THEN IF x.e + L > 9 THEN cap ELSE Min(x.m * (2 ^ x.e), cap)
        ELSE IF 0 - x.e >= L THEN 0
        ELSE Min(x.m \div (2 ^ (0 - x.e)), cap)

\* `x as u8`: truncation toward zero, saturating, NaN to 0
F32AsU8(x) ==
    IF x.k = "nan" THEN 0
    ELSE IF x.s = 1 THEN 0
    ELSE IF x.k = "inf" THEN 255
    ELSE TruncMag(x, 255)

\* `x as i8`: truncation toward zero, saturating, NaN to 0
F32AsI8(x) ==
    IF x.k = "nan" THEN 0
    ELSE IF x.k = "inf" THEN (IF x.s = 1 THEN 0 - 128 ELSE 127)
    ELSE IF x.s = 1 THEN 0 - TruncMag(x, 128)
    ELSE TruncMag(x, 127)

(***************************************************************************)
(* The implementations of EguiScale::scale.  A value of an egui type is a  *)
(* record of its fields; `scale(&mut self, scale)` is the operator from    *)
(* the receiver before the call and the factor to the receiver after it.   *)
(* Fields that no implementation assigns keep their value (EXCEPT).        *)
(***************************************************************************)
One == Normalise(0, 1, 0)

Half == Normalise(0, 1, -1)

\* f32::scale with the slip `*self += scale`
f32_scale_adds(self, scale) == F32Add(self, scale)

\* impl EguiScale for f32: *self *= scale
f32_scale(self, scale) == F32Mul(self, scale)

\* u8::scale rounding to nearest instead of truncating
u8_scale_rounds(self, scale) ==
    F32AsU8(F32Add(F32Mul(F32FromInt(self), scale), Half))

\* impl EguiScale for u8: *self = (f32::from(*self) * scale) as u8
u8_scale(self, scale) == F32AsU8(F32Mul(F32FromInt(self), scale))

\* impl EguiScale for i8: *self = (f32::from(*self) * scale) as i8
i8_scale(self, scale) == F32AsI8(F32Mul(F32FromInt(self), scale))

\* impl EguiScale for Vec2: *self *= scale (both components)
Vec2_scale(self, scale) ==
    [self EXCEPT !.x = F32Mul(self.x, scale), !.y = F32Mul(self.y, scale)]

CornerRadius_scale(self, scale) ==
    [self EXCEPT !.nw = u8_scale(self.nw, scale),
                 !.ne = u8_scale(self.ne, scale),
                 !.se = u8_scale(self.se, scale),
                 !.sw = u8_scale(self.sw, scale)]

Margin_scale(self, scale) ==
    [self EXCEPT !.left   = i8_scale(self.left, scale),
                 !.right  = i8_scale(self.right, scale),
                 !.top    = i8_scale(self.top, scale),
                 !.bottom = i8_scale(self.bottom, scale)]

\* impl EguiScale for [T], at T = i8 (Shadow::offset is [i8; 2])
slice_scale(self, scale) ==
    [n \in DOMAIN self |-> i8_scale(self[n], scale)]

Shadow_scale(self, scale) ==
    [self EXCEPT !.offset = slice_scale(self.offset, scale),
                 !.blur   = u8_scale(self.blur, scale),
                 !.spread = u8_scale(self.spread, scale)]

\* Color32::gamma_multiply(self, factor) -> Color32: takes the colour by
\* value and returns the product, each channel (c as f32 * factor + 0.5) as u8
gamma_multiply(color, factor) ==
    [n \in DOMAIN color |->
        F32AsU8(F32Add(F32Mul(F32FromInt(color[n]), factor), Half))]

\* Stroke::scale with the floor tested on the factor, `if scale < 1.0`
Stroke_scale_tests_factor(self, scale) ==
    LET width == F32Mul(self.width, scale)
    IN  IF F32Lt(scale, One) THEN [self EXCEPT !.width = One]
        ELSE [self EXCEPT !.width = width]

\* Stroke::scale with `self.width = 1.0` placed after the `if` block
Stroke_scale_clamps_always(self, scale) == [self EXCEPT !.width = One]

\* Stroke::scale without the assignment `self.width = 1.0`
Stroke_scale_unclamped(self, scale) ==
    [self EXCEPT !.width = F32Mul(self.width, scale)]

\* impl EguiScale for Stroke.  Line 109 calls gamma_multiply on a copy of
\* self.color and drops the value it returns: self.color is not assigned.
Stroke_scale(self, scale) ==
    LET width == F32Mul(self.width, scale)
    IN  IF F32Lt(width, One)
        THEN LET unused == gamma_multiply(self.color, width)
             IN  [self EXCEPT !.width = One]
        ELSE [self EXCEPT !.width = width]

WidgetVisuals_scale(self, scale) ==
    [self EXCEPT !.bg_stroke     = Stroke_scale(self.bg_stroke, scale),
                 !.corner_radius = CornerRadius_scale(self.corner_radius, scale),
                 !.fg_stroke     = Stroke_scale(self.fg_stroke, scale),
                 !.expansion     = f32_scale(self.expansion, scale)]

\* Interaction::scale without its second line
Interaction_scale_skips_side(self, scale) ==
    [self EXCEPT
        !.resize_grab_radius_corner = f32_scale(self.resize_grab_radius_corner, scale)]

Interaction_scale(self, scale) ==
    [self EXCEPT
        !.resize_grab_radius_corner = f32_scale(self.resize_grab_radius_corner, scale),
        !.resize_grab_radius_side   = f32_scale(self.resize_grab_radius_side, scale)]

\* Widgets::scale with `hovered` written twice and `active` never
Widgets_scale_hovered_twice(self, scale) ==
    [self EXCEPT
        !.noninteractive = WidgetVisuals_scale(self.noninteractive, scale),
        !.inactive       = WidgetVisuals_scale(self.inactive, scale),
        !.hovered        = WidgetVisuals_scale(WidgetVisuals_scale(self.hovered, scale), scale),
        !.open           = WidgetVisuals_scale(self.open, scale)]

Widgets_scale(self, scale) ==
    [self EXCEPT !.noninteractive = WidgetVisuals_scale(self.noninteractive, scale),
                 !.inactive       = WidgetVisuals_scale(self.inactive, scale),
                 !.hovered        = WidgetVisuals_scale(self.hovered, scale),
                 !.active         = WidgetVisuals_scale(self.active, scale),
                 !.open           = WidgetVisuals_scale(self.open, scale)]

TextCursorStyle_scale(self, scale) ==
    [self EXCEPT !.stroke = Stroke_scale(self.stroke, scale)]

Visuals_scale(self, scale) ==
    [self EXCEPT
        !.clip_rect_margin     = f32_scale(self.clip_rect_margin, scale),
        !.menu_corner_radius   = CornerRadius_scale(self.menu_corner_radius, scale),
        !.popup_shadow         = Shadow_scale(self.popup_shadow, scale),
        !.resize_corner_size   = f32_scale(self.resize_corner_size, scale),
        !.selection.stroke     = Stroke_scale(self.selection.stroke, scale),
        !.text_cursor          = TextCursorStyle_scale(self.text_cursor, scale),
        !.widgets              = Widgets_scale(self.widgets, scale),
        !.window_corner_radius = CornerRadius_scale(self.window_corner_radius, scale),
        !.window_shadow        = Shadow_scale(self.window_shadow, scale),
        !.window_stroke        = Stroke_scale(self.window_stroke, scale)]

ScrollStyle_scale(self, scale) ==
    [self EXCEPT
        !.bar_inner_margin         = f32_scale(self.bar_inner_margin, scale),
        !.bar_outer_margin         = f32_scale(self.bar_outer_margin, scale),
        !.bar_width                = f32_scale(self.bar_width, scale),
        !.floating_allocated_width = f32_scale(self.floating_allocated_width, scale),
        !.floating_width           = f32_scale(self.floating_width, scale),
        !.handle_min_length        = f32_scale(self.handle_min_length, scale)]

Spacing_scale(self, scale) ==
    [self EXCEPT
        !.button_padding   = Vec2_scale(self.button_padding, scale),
        !.combo_height     = f32_scale(self.combo_height, scale),
        !.combo_width      = f32_scale(self.combo_width, scale),
        !.icon_spacing     = f32_scale(self.icon_spacing, scale),
        !.icon_width       = f32_scale(self.icon_width, scale),
        !.icon_width_inner = f32_scale(self.icon_width_inner, scale),
        !.indent           = f32_scale(self.indent, scale),
        !.interact_size    = Vec2_scale(self.interact_size, scale),
        !.item_spacing     = Vec2_scale(self.item_spacing, scale),
        !.menu_margin      = Margin_scale(self.menu_margin, scale),
        !.scroll           = ScrollStyle_scale(self.scroll, scale),
        !.slider_width     = f32_scale(self.slider_width, scale),
        !.text_edit_width  = f32_scale(self.text_edit_width, scale),
        !.tooltip_width    = f32_scale(self.tooltip_width, scale),
        !.window_margin    = Margin_scale(self.window_margin, scale)]

\* FontId::scale with the slip `self.size = scale`
FontId_scale_assigns(self, scale) == [self EXCEPT !.size = scale]

FontId_scale(self, scale) ==
    [self EXCEPT !.size = f32_scale(self.size, scale)]

\* Option::scale with the slip `if let Some(mut value) = *self`, which
\* scales a copy
Option_scale_copy(self, scale) == self

\* impl EguiScale for Option<T>, at T = Stroke; None is <<>>, Some(v) is <<v>>
Option_scale(self, scale) ==
    IF self # <<>> THEN <<Stroke_scale(self[1], scale)>> ELSE self

\* impl EguiScale for Style; override_font_id is <<>> or <<font_id>>,
\* text_styles a function from its keys to FontIds
Style_scale(self, scale) ==
    [self EXCEPT
        !.override_font_id =
            IF self.override_font_id # <<>>
            THEN <<FontId_scale(self.override_font_id[1], scale)>>
            ELSE self.override_font_id,
        !.text_styles =
            [key \in DOMAIN self.text_styles |->
                FontId_scale(self.text_styles[key], scale)],
        !.interaction = Interaction_scale(self.interaction, scale),
        !.spacing     = Spacing_scale(self.spacing, scale),
        !.visuals     = Visuals_scale(self.visuals, scale)]

Frame_scale(self, scale) ==
    [self EXCEPT !.inner_margin  = Margin_scale(self.inner_margin, scale),
                 !.outer_margin  = Margin_scale(self.outer_margin, scale),
                 !.corner_radius = CornerRadius_scale(self.corner_radius, scale),
                 !.shadow        = Shadow_scale(self.shadow, scale),
                 !.stroke        = Stroke_scale(self.stroke, scale)]

(***************************************************************************)
(* Inputs: the values scale is called on and the factors it is called with *)
(***************************************************************************)
\* the positive binary32 number m * 2^e
F(m, e) == Normalise(0, m, e)

Neg(x) == [x EXCEPT !.s = 1 - x.s]

\* the binary32 numbers written 0.1 and 0.6 in Rust source
Tenth == F(13421773, -27)

SixTenths == F(5033165, -23)

MaxCalls == 2

Factors ==
    { Zero(0), One, F(2, 0), Half, F(3, -1), Tenth, SixTenths, Neg(One),
      F(1, 100), F(1, -100), Inf(0), NaN }

\* the factors a whole Style is scaled by
StyleFactors ==
    { Zero(0), One, F(2, 0), Half, F(3, -1), Tenth, Neg(One), Inf(0) }

F32Values ==
    { Zero(0), One, F(3, 0), F(14, 0), F(20, 0), F(16777215, 0), Neg(F(5, -1)),
      F(1, -149), F(1, 127), Inf(0), NaN }

U8Values == {0, 1, 2, 3, 100, 200, 255}

I8Values == {0 - 128, 0 - 100, 0 - 3, 0 - 1, 0, 1, 3, 100, 127}

White == <<255, 255, 255, 255>>

Grey == <<60, 60, 60, 255>>

Transparent == <<0, 0, 0, 0>>

StrokeOf(width, color) == [width |-> width, color |-> color]

StrokeValues ==
    { StrokeOf(w, c) :
        w \in {Zero(0), Half, One, F(2, 0), F(3, 0), F(1, 127), Neg(F(2, 0))},
        c \in {White, Transparent} }

OptionValues == { <<>>, <<StrokeOf(F(2, 0), White)>>, <<StrokeOf(Half, Grey)>> }

CornerRadiusOf(u) == [nw |-> u, ne |-> u, se |-> u, sw |-> u]

MarginOf(i) == [left |-> i, right |-> i, top |-> i, bottom |-> i]

ShadowOf(x, y, blur, spread) ==
    [offset |-> <<x, y>>, blur |-> blur, spread |-> spread, color |-> Grey]

Vec2Of(x, y) == [x |-> x, y |-> y]

FontIdOf(size, family) == [size |-> size, family |-> family]

WidgetVisualsOf(bg, u, fg, expansion) ==
    [bg_fill |-> Grey, bg_stroke |-> bg, corner_radius |-> CornerRadiusOf(u),
     fg_stroke |-> fg, expansion |-> expansion]

\* Style::default() of egui (dark visuals); inactive.bg_stroke is
\* Stroke::default(), of width 0
StyleDefault ==
    [override_font_id |-> <<>>,
     text_styles |->
        [key \in {"Small", "Body", "Monospace", "Button", "Heading"} |->
            CASE key = "Small"     -> FontIdOf(F(9, 0), "Proportional")
              [] key = "Body"      -> FontIdOf(F(25, -1), "Proportional")
              [] key = "Monospace" -> FontIdOf(F(12, 0), "Monospace")
              [] key = "Button"    -> FontIdOf(F(25, -1), "Proportional")
              [] key = "Heading"   -> FontIdOf(F(18, 0), "Proportional")],
     interaction |->
        [resize_grab_radius_corner |-> F(10, 0),
         resize_grab_radius_side   |-> F(5, 0),
         selectable_labels         |-> TRUE],
     spacing |->
        [button_padding   |-> Vec2Of(F(4, 0), One),
         combo_height     |-> F(200, 0),
         combo_width      |-> F(100, 0),
         icon_spacing     |-> F(4, 0),
         icon_width       |-> F(14, 0),
         icon_width_inner |-> F(8, 0),
         indent           |-> F(18, 0),
         interact_size    |-> Vec2Of(F(40, 0), F(18, 0)),
         item_spacing     |-> Vec2Of(F(8, 0), F(3, 0)),
         menu_margin      |-> MarginOf(6),
         scroll           |->
            [bar_inner_margin         |-> F(4, 0),
             bar_outer_margin         |-> Zero(0),
             bar_width                |-> F(6, 0),
             floating_allocated_width |-> Zero(0),
             floating_width           |-> F(2, 0),
             handle_min_length        |-> F(12, 0),
             floating                 |-> TRUE],
         slider_width     |-> F(100, 0),
         text_edit_width  |-> F(280, 0),
         tooltip_width    |-> F(500, 0),
         window_margin    |-> MarginOf(6),
         indent_ends_with_horizontal_line |-> FALSE],
     visuals |->
        [dark_mode            |-> TRUE,
         clip_rect_margin     |-> F(3, 0),
         menu_corner_radius   |-> CornerRadiusOf(6),
         popup_shadow         |-> ShadowOf(6, 10, 8, 0),
         resize_corner_size   |-> F(12, 0),
         selection            |->
            [bg_fill |-> Grey, stroke |-> StrokeOf(One, White)],
         text_cursor          |->
            [stroke |-> StrokeOf(F(2, 0), White), blink |-> TRUE],
         widgets              |->
            [noninteractive |->
                WidgetVisualsOf(StrokeOf(One, Grey), 2, StrokeOf(One, White), Zero(0)),
             inactive       |->
                WidgetVisualsOf(StrokeOf(Zero(0), Transparent), 2,
                                StrokeOf(One, White), Zero(0)),
             hovered        |->
                WidgetVisualsOf(StrokeOf(One, White), 3, StrokeOf(F(3, -1), White), One),
             active         |->
                WidgetVisualsOf(StrokeOf(One, White), 2, StrokeOf(F(2, 0), White), One),
             open           |->
                WidgetVisualsOf(StrokeOf(One, Grey), 2, StrokeOf(One, White), Zero(0))],
         window_corner_radius |-> CornerRadiusOf(6),
         window_shadow        |-> ShadowOf(10, 20, 15, 0),
         window_stroke        |-> StrokeOf(One, Grey)]]

\* a Style whose strokes all have the width w, with an override font and
\* the text styles body and heading of sizes 14 and 20
StyleWith(w, font) ==
    LET bump(wv) == [wv EXCEPT !.bg_stroke.width = w, !.fg_stroke.width = w,
                               !.expansion = F(3, -1)]
    IN  [StyleDefault EXCEPT
            !.override_font_id = font,
            !.text_styles =
                [key \in {"Body", "Heading"} |->
                    IF key = "Body" THEN FontIdOf(F(14, 0), "Proportional")
                    ELSE FontIdOf(F(20, 0), "Proportional")],
            !.spacing.scroll.bar_outer_margin = One,
            !.spacing.scroll.floating_allocated_width = F(3, 0),
            !.spacing.menu_margin = [left |-> 0 - 3, right |-> 7, top |-> 1, bottom |-> 100],
            !.visuals.selection.stroke.width = w,
            !.visuals.text_cursor.stroke.width = w,
            !.visuals.window_stroke.width = w,
            !.visuals.window_shadow.spread = 200,
            !.visuals.widgets.noninteractive = bump(@),
            !.visuals.widgets.inactive = bump(@),
            !.visuals.widgets.hovered = bump(@),
            !.visuals.widgets.active = bump(@),
            !.visuals.widgets.open = bump(@)]

StyleValues ==
    { StyleDefault,
      StyleWith(F(2, 0), <<FontIdOf(F(16, 0), "Monospace")>>),
      StyleWith(Half, <<FontIdOf(F(16777215, 0), "Proportional")>>) }

FrameOf(i, u, shadow, stroke) ==
    [inner_margin |-> MarginOf(i), outer_margin |-> [MarginOf(i) EXCEPT !.left = 1],
     corner_radius |-> CornerRadiusOf(u), shadow |-> shadow, fill |-> Grey,
     stroke |-> stroke]

FrameValues ==
    { FrameOf(0, 0, ShadowOf(0, 0, 0, 0), StrokeOf(Zero(0), Transparent)),
      FrameOf(6, 6, ShadowOf(10, 20, 15, 0), StrokeOf(One, Grey)),
      FrameOf(0 - 3, 3, ShadowOf(0 - 5, 100, 200, 1), StrokeOf(F(2, 0), White)),
      FrameOf(100, 255, ShadowOf(0 - 128, 127, 255, 3), StrokeOf(Half, White)) }

(***************************************************************************)
(* The state: obj is the value the caller holds, prev the value it held    *)
(* before the last call, orig the value it started with, and factors the   *)
(* factors of the calls made so far, in order.                             *)
(***************************************************************************)
Init ==
    /\ \/ \E x \in F32Values : obj = [ty |-> "f32", v |-> x]
       \/ \E x \in U8Values : obj = [ty |-> "u8", v |-> x]
       \/ \E x \in I8Values : obj = [ty |-> "i8", v |-> x]
       \/ \E x \in StrokeValues : obj = [ty |-> "Stroke", v |-> x]
       \/ \E x \in OptionValues : obj = [ty |-> "Option", v |-> x]
       \/ \E x \in StyleValues : obj = [ty |-> "Style", v |-> x]
       \/ \E x \in FrameValues : obj = [ty |-> "Frame", v |-> x]
    /\ prev = obj
    /\ orig = obj
    /\ factors = <<>>

\* what every call does besides assigning the receiver
Called(s) ==
    /\ Len(factors) < MaxCalls
    /\ prev' = obj
    /\ factors' = Append(factors, s)
    /\ UNCHANGED orig

ScaleF32(s) ==
    /\ obj.ty = "f32"
    /\ obj' = [obj EXCEPT !.v = f32_scale(obj.v, s)]
    /\ Called(s)

ScaleU8(s) ==
    /\ obj.ty = "u8"
    /\ obj' = [obj EXCEPT !.v = u8_scale(obj.v, s)]
    /\ Called(s)

ScaleI8(s) ==
    /\ obj.ty = "i8"
    /\ obj' = [obj EXCEPT !.v = i8_scale(obj.v, s)]
    /\ Called(s)

ScaleStroke(s) ==
    /\ obj.ty = "Stroke"
    /\ obj' = [obj EXCEPT !.v = Stroke_scale(obj.v, s)]
    /\ Called(s)

ScaleOption(s) ==
    /\ obj.ty = "Option"
    /\ obj' = [obj EXCEPT !.v = Option_scale(obj.v, s)]
    /\ Called(s)

ScaleStyle(s) ==
    /\ obj.ty = "Style"
    /\ obj' = [obj EXCEPT !.v = Style_scale(obj.v, s)]
    /\ Called(s)

ScaleFrame(s) ==
    /\ obj.ty = "Frame"
    /\ obj' = [obj EXCEPT !.v = Frame_scale(obj.v, s)]
    /\ Called(s)

Next ==
    \/ \E s \in Factors :
        \/ ScaleF32(s)
        \/ ScaleU8(s)
        \/ ScaleI8(s)
        \/ ScaleStroke(s)
        \/ ScaleOption(s)
        \/ ScaleFrame(s)
    \/ \E s \in StyleFactors : ScaleStyle(s)

Spec == Init /\ [][Next]_vars

(***************************************************************************)
(* Vocabulary of the properties: the last call, the leaves of a value by   *)
(* path, and the results the text of the specification describes.          *)
(***************************************************************************)
called == factors # <<>>

last == factors[Len(factors)]

F32Le(a, b) == F32Lt(a, b) \/ F32Eq(a, b)

IsFinite(x) == x.k = "fin"

\* the real product of a and b is a binary32 number: the multiplication
\* neither rounds, overflows nor underflows
ExactMul(a, b) ==
    /\ IsFinite(a)
    /\ IsFinite(b)
    /\ \/ a.m = 0
       \/ b.m = 0
       \/ /\ BitLen(a.m) + BitLen(b.m) <= 25
          /\ LET L == BitLen(a.m * b.m)
                 e == a.e + b.e
             IN  L <= 24 /\ e >= -149 /\ e + L - 1 <= 127

\* a finite x truncated toward zero, as an integer; magnitudes of 2^20 and
\* more are all given as 2^20
TruncInt(x) ==
    LET L   == BitLen(x.m)
        mag == IF x.m = 0 THEN 0
               ELSE IF x.e >= 0
                    THEN (IF x.e + L > 20 THEN 2 ^ 20 ELSE x.m * (2 ^ x.e))
               ELSE IF 0 - x.e >= L THEN 0
               ELSE x.m \div (2 ^ (0 - x.e))
    IN  IF x.s = 1 THEN 0 - mag ELSE mag

\* the product v * s truncated toward zero and brought into lo..hi
\* (NaN gives 0, an infinity the bound on its side)
TruncSaturate(v, s, lo, hi) ==
    LET p == F32Mul(F32FromInt(v), s)
    IN  IF p.k = "nan" THEN 0
        ELSE IF p.k = "inf" THEN (IF p.s = 1 THEN lo ELSE hi)
        ELSE Min(Max(TruncInt(p), lo), hi)

\* a stroke after the floor rule: width old * s, raised to 1.0 when below
\* it, the colour as it was
FlooredStroke(st, s) ==
    LET p == F32Mul(st.width, s)
    IN  [width |-> IF F32Lt(p, One) THEN One ELSE p, color |-> st.color]

WidgetStates == {"noninteractive", "inactive", "hovered", "active", "open"}

ShadowU8s(path, sh) ==
    {<<path \o <<"blur">>, sh.blur>>, <<path \o <<"spread">>, sh.spread>>}

ShadowI8s(path, sh) ==
    {<<path \o <<"offset", "0">>, sh.offset[1]>>,
     <<path \o <<"offset", "1">>, sh.offset[2]>>}

CornerU8s(path, cr) ==
    {<<path \o <<"nw">>, cr.nw>>, <<path \o <<"ne">>, cr.ne>>,
     <<path \o <<"se">>, cr.se>>, <<path \o <<"sw">>, cr.sw>>}

MarginI8s(path, mg) ==
    {<<path \o <<"left">>, mg.left>>, <<path \o <<"right">>, mg.right>>,
     <<path \o <<"top">>, mg.top>>, <<path \o <<"bottom">>, mg.bottom>>}

Vec2Floats(path, vec) ==
    {<<path \o <<"x">>, vec.x>>, <<path \o <<"y">>, vec.y>>}

\* the floating-point linear dimensions of a value other than stroke widths,
\* as <<path, value>> pairs
LeafFloats(o) ==
    CASE o.ty = "f32" -> {<<<<"self">>, o.v>>}
      [] o.ty = "Style" ->
            LET sp == o.v.spacing
                sc == o.v.spacing.scroll
                vi == o.v.visuals
            IN  {<<<<"interaction", "resize_grab_radius_corner">>,
                   o.v.interaction.resize_grab_radius_corner>>,
                 <<<<"interaction", "resize_grab_radius_side">>,
                   o.v.interaction.resize_grab_radius_side>>,
                 <<<<"spacing", "combo_height">>, sp.combo_height>>,
                 <<<<"spacing", "combo_width">>, sp.combo_width>>,
                 <<<<"spacing", "icon_spacing">>, sp.icon_spacing>>,
                 <<<<"spacing", "icon_width">>, sp.icon_width>>,
                 <<<<"spacing", "icon_width_inner">>, sp.icon_width_inner>>,
                 <<<<"spacing", "indent">>, sp.indent>>,
                 <<<<"spacing", "slider_width">>, sp.slider_width>>,
                 <<<<"spacing", "text_edit_width">>, sp.text_edit_width>>,
                 <<<<"spacing", "tooltip_width">>, sp.tooltip_width>>,
                 <<<<"scroll", "bar_inner_margin">>, sc.bar_inner_margin>>,
                 <<<<"scroll", "bar_outer_margin">>, sc.bar_outer_margin>>,
                 <<<<"scroll", "bar_width">>, sc.bar_width>>,
                 <<<<"scroll", "floating_allocated_width">>,
                   sc.floating_allocated_width>>,
                 <<<<"scroll", "floating_width">>, sc.floating_width>>,
                 <<<<"scroll", "handle_min_length">>, sc.handle_min_length>>,
                 <<<<"visuals", "clip_rect_margin">>, vi.clip_rect_margin>>,
                 <<<<"visuals", "resize_corner_size">>, vi.resize_corner_size>>}
                \cup Vec2Floats(<<"spacing", "button_padding">>, sp.button_padding)
                \cup Vec2Floats(<<"spacing", "interact_size">>, sp.interact_size)
                \cup Vec2Floats(<<"spacing", "item_spacing">>, sp.item_spacing)
                \cup {<<<<"widgets", w, "expansion">>, vi.widgets[w].expansion>> :
                        w \in WidgetStates}
                \cup {<<<<"text_styles", key>>, o.v.text_styles[key].size>> :
                        key \in DOMAIN o.v.text_styles}
                \cup {<<<<"override_font_id">>, o.v.override_font_id[n].size>> :
                        n \in DOMAIN o.v.override_font_id}
      [] OTHER -> {}

\* the strokes of a value, as <<path, stroke>> pairs
LeafStrokes(o) ==
    CASE o.ty = "Stroke" -> {<<<<"self">>, o.v>>}
      [] o.ty = "Option" -> {<<<<"Some">>, o.v[n]>> : n \in DOMAIN o.v}
      [] o.ty = "Frame" -> {<<<<"stroke">>, o.v.stroke>>}
      [] o.ty = "Style" ->
            LET vi == o.v.visuals
            IN  {<<<<"selection", "stroke">>, vi.selection.stroke>>,
                 <<<<"text_cursor", "stroke">>, vi.text_cursor.stroke>>,
                 <<<<"window_stroke">>, vi.window_stroke>>}
                \cup {<<<<"widgets", w, "bg_stroke">>, vi.widgets[w].bg_stroke>> :
                        w \in WidgetStates}
                \cup {<<<<"widgets", w, "fg_stroke">>, vi.widgets[w].fg_stroke>> :
                        w \in WidgetStates}
      [] OTHER -> {}

\* the u8 linear dimensions of a value
LeafU8s(o) ==
    CASE o.ty = "u8" -> {<<<<"self">>, o.v>>}
      [] o.ty = "Frame" ->
            CornerU8s(<<"corner_radius">>, o.v.corner_radius)
            \cup ShadowU8s(<<"shadow">>, o.v.shadow)
      [] o.ty = "Style" ->
            LET vi == o.v.visuals
            IN  CornerU8s(<<"menu_corner_radius">>, vi.menu_corner_radius)
                \cup CornerU8s(<<"window_corner_radius">>, vi.window_corner_radius)
                \cup ShadowU8s(<<"popup_shadow">>, vi.popup_shadow)
                \cup ShadowU8s(<<"window_shadow">>, vi.window_shadow)
                \cup UNION {CornerU8s(<<"widgets", w>>, vi.widgets[w].corner_radius) :
                              w \in WidgetStates}
      [] OTHER -> {}

\* the i8 linear dimensions of a value
LeafI8s(o) ==
    CASE o.ty = "i8" -> {<<<<"self">>, o.v>>}
      [] o.ty = "Frame" ->
            MarginI8s(<<"inner_margin">>, o.v.inner_margin)
            \cup MarginI8s(<<"outer_margin">>, o.v.outer_margin)
            \cup ShadowI8s(<<"shadow">>, o.v.shadow)
      [] o.ty = "Style" ->
            MarginI8s(<<"menu_margin">>, o.v.spacing.menu_margin)
            \cup MarginI8s(<<"window_margin">>, o.v.spacing.window_margin)
            \cup ShadowI8s(<<"popup_shadow">>, o.v.visuals.popup_shadow)
            \cup ShadowI8s(<<"window_shadow">>, o.v.visuals.window_shadow)
      [] OTHER -> {}

\* the value a set of <<path, value>> pairs holds at a path
At(leaves, path) == (CHOOSE pv \in leaves : pv[1] = path)[2]

(***************************************************************************)
(* Properties                                                              *)
(***************************************************************************)

\* C1 (as claimed): when Stroke.scale(s) finds width * s < 1.0, the width
\* ends exactly 1.0 and the colour ends as the old colour gamma-multiplied
\* by the pre-clamp width * s.
C1_StrokeFloorAttenuates ==
    (obj.ty = "Stroke" /\ called /\ F32Lt(F32Mul(prev.v.width, last), One))
        => /\ obj.v.width = One
           /\ obj.v.color = gamma_multiply(prev.v.color, F32Mul(prev.v.width, last))

\* C4: when Stroke.scale(s) finds width * s >= 1.0 (1.0 itself included),
\* the width ends as width * s and the colour is unchanged.
C4_StrokeNonFloor ==
    \A pv \in LeafStrokes(prev) :
        (called /\ F32Le(One, F32Mul(pv[2].width, last)))
            => LET after == At(LeafStrokes(obj), pv[1])
               IN  /\ after.width = F32Mul(pv[2].width, last)
                   /\ after.color = pv[2].color

\* C4 witness: width 2.0 scaled by 0.6 is 1.2, colour as before
C4_Witness ==
    /\ obj.ty = "Stroke"
    /\ called
    /\ prev.v = StrokeOf(F(2, 0), White)
    /\ last = SixTenths
    /\ obj.v = StrokeOf(F(5033165, -22), White)

C2_IdentityFactor ==
    (called /\ last = One) => obj = prev

\* C2 (amended): scale(1.0) leaves every field unchanged provided no stroke
\* of the value has a width below 1.0 (as is the case after any earlier
\* scale call); a stroke of width below 1.0 has its width raised to 1.0.
C2_IdentityFactorAboveFloor ==
    (called /\ last = One)
        => /\ (\A pv \in LeafStrokes(prev) : ~F32Lt(pv[2].width, One)) => obj = prev
           /\ \A pv \in LeafStrokes(prev) :
                F32Lt(pv[2].width, One) => At(LeafStrokes(obj), pv[1]).width = One

\* C2 witness: a Style with strokes of width 2.0, u8 radii and i8 margins,
\* scaled by 1.0
C2_Witness ==
    /\ obj.ty = "Style"
    /\ factors = <<One>>
    /\ prev.v.visuals.window_stroke.width = F(2, 0)
    /\ obj = prev

\* C7 (as claimed): u8.scale(s) and i8.scale(s) yield the product v * s
\* truncated toward zero, for every factor, also when v * s lies outside
\* the type's range.  Stated for the finite products only.
C7_IntegerTruncation ==
    (obj.ty \in {"u8", "i8"} /\ called)
        => LET p == F32Mul(F32FromInt(prev.v), last)
           IN  IsFinite(p) => obj.v = TruncInt(p)

\* C7 (amended): u8.scale(s) yields v * s truncated toward zero when that
\* lies in 0..255, 0 when the product is negative or NaN and 255 when it is
\* above 255; i8.scale(s) yields v * s truncated toward zero, sign kept,
\* when that lies in -128..127, the nearer of -128 and 127 when it does
\* not, and 0 when the product is NaN.
C7_IntegerTruncationSaturating ==
    /\ (obj.ty = "u8" /\ called) => obj.v = TruncSaturate(prev.v, last, 0, 255)
    /\ (obj.ty = "i8" /\ called) => obj.v = TruncSaturate(prev.v, last, 0 - 128, 127)

\* C7 witness: -3 scaled by 1.5 is -4
C7_Witness ==
    /\ obj.ty = "i8"
    /\ called
    /\ prev.v = 0 - 3
    /\ last = F(3, -1)
    /\ obj.v = 0 - 4

\* C8: Style.scale(s) leaves the text-style mapping with the same keys and
\* each FontId's family unchanged, and every entry's size becomes old * s.
C8_MappingKeysPreserved ==
    (obj.ty = "Style" /\ called)
        => /\ DOMAIN obj.v.text_styles = DOMAIN prev.v.text_styles
           /\ \A key \in DOMAIN prev.v.text_styles :
                /\ obj.v.text_styles[key].family = prev.v.text_styles[key].family
                /\ obj.v.text_styles[key].size
                     = F32Mul(prev.v.text_styles[key].size, last)

\* C8 witness: keys body and heading of sizes 14 and 20, scaled by 2.0,
\* have sizes 28 and 40
C8_Witness ==
    /\ obj.ty = "Style"
    /\ factors = <<F(2, 0)>>
    /\ DOMAIN obj.v.text_styles = {"Body", "Heading"}
    /\ prev.v.text_styles["Body"].size = F(14, 0)
    /\ prev.v.text_styles["Heading"].size = F(20, 0)
    /\ obj.v.text_styles["Body"] = FontIdOf(F(28, 0), "Proportional")
    /\ obj.v.text_styles["Heading"] = FontIdOf(F(40, 0), "Proportional")

\* C9: scaling an absent optional value (Option::None, a Style's absent
\* override font) leaves it absent and changes nothing; scaling a present
\* one leaves it present with its inner value scaled as the inner type's
\* scale does.
C9_OptionalPassThrough ==
    /\ (obj.ty = "Option" /\ called)
        => IF prev.v = <<>> THEN obj = prev
           ELSE obj.v = <<FlooredStroke(prev.v[1], last)>>
    /\ (obj.ty = "Style" /\ called)
        => IF prev.v.override_font_id = <<>> THEN obj.v.override_font_id = <<>>
           ELSE obj.v.override_font_id =
                    << [prev.v.override_font_id[1] EXCEPT
                          !.size = F32Mul(prev.v.override_font_id[1].size, last)] >>

\* C9 witness: a present Option<Stroke> of width 2.0 scaled by 2.0
C9_Witness ==
    /\ obj.ty = "Option"
    /\ called
    /\ last = F(2, 0)
    /\ prev.v = <<StrokeOf(F(2, 0), White)>>
    /\ obj.v = <<StrokeOf(F(4, 0), White)>>

\* the leaves `leaves`, each mapped by rule(value, s)
Mapped(leaves, rule(_, _), s) == {<<pv[1], rule(pv[2], s)>> : pv \in leaves}

U8Rule(v, s) == TruncSaturate(v, s, 0, 255)

I8Rule(v, s) == TruncSaturate(v, s, 0 - 128, 127)

\* every stroke width, as a floating-point leaf
StrokeWidths(o) == {<<pv[1], pv[2].width>> : pv \in LeafStrokes(o)}

\* C6 (as claimed): one Style.scale(s) or Frame.scale(s) leaves every
\* floating-point leaf, the stroke widths among them, equal to old * s.
C6_EveryFloatTimesFactor ==
    (obj.ty \in {"Style", "Frame"} /\ called)
        => /\ LeafFloats(obj) = Mapped(LeafFloats(prev), F32Mul, last)
           /\ StrokeWidths(obj) = Mapped(StrokeWidths(prev), F32Mul, last)

\* C6 (amended): one Style.scale(s) or Frame.scale(s) applies the leaf rule
\* to every nested scalable leaf exactly once: every floating-point leaf
\* other than a stroke width ends equal to old * s, every stroke as
\* Stroke.scale(s) leaves it (width old * s, or 1.0 when that is below
\* 1.0), every u8 and i8 leaf as u8.scale(s) and i8.scale(s) leave it.
C6_EveryLeafScaledOnce ==
    (obj.ty \in {"Style", "Frame"} /\ called)
        => /\ LeafFloats(obj) = Mapped(LeafFloats(prev), F32Mul, last)
           /\ LeafStrokes(obj) = Mapped(LeafStrokes(prev), FlooredStroke, last)
           /\ LeafU8s(obj) = Mapped(LeafU8s(prev), U8Rule, last)
           /\ LeafI8s(obj) = Mapped(LeafI8s(prev), I8Rule, last)

\* C6 witness: the default Style scaled by 2.0; a shadow's blur went from
\* 15 to 30, the hovered foreground stroke from 1.5 to 3.0, not 6.0
C6_Witness ==
    /\ obj.ty = "Style"
    /\ factors = <<F(2, 0)>>
    /\ prev.v = StyleDefault
    /\ obj.v.visuals.window_shadow.blur = 30
    /\ obj.v.visuals.widgets.hovered.fg_stroke.width = F(3, 0)
    /\ obj.v.spacing.scroll.bar_width = F(12, 0)

\* the three products of a two-step scaling of v are exact
ExactTwice(v, s1, s2) ==
    /\ ExactMul(v, s1)
    /\ ExactMul(F32Mul(v, s1), s2)
    /\ ExactMul(s1, s2)
    /\ ExactMul(v, F32Mul(s1, s2))

\* C3 (as claimed): scaling by s1 and then by s2 yields, in every field
\* other than a stroke width whose floor has been engaged, the value that
\* scaling once by s1 * s2 yields; u8 and i8 fields included.  Stated for
\* the finite factors, and for the floating-point fields whose products are
\* exact.
C3_Composable ==
    (Len(factors) = 2 /\ IsFinite(factors[1]) /\ IsFinite(factors[2]))
        => LET s1  == factors[1]
               s2  == factors[2]
               s12 == F32Mul(s1, s2)
           IN  /\ \A pv \in LeafFloats(orig) :
                    ExactTwice(pv[2], s1, s2)
                        => At(LeafFloats(obj), pv[1]) = F32Mul(pv[2], s12)
               /\ LeafU8s(obj) = Mapped(LeafU8s(orig), U8Rule, s12)
               /\ LeafI8s(obj) = Mapped(LeafI8s(orig), I8Rule, s12)

\* C3 (amended): for every floating-point field, a stroke width whose floor
\* was not engaged included, scaling by s1 and then by s2 yields the value
\* that scaling once by s1 * s2 yields whenever the products involved are
\* exact (a product that rounds, overflows or underflows can make the two
\* differ); u8 and i8 fields, truncated at each call, are excepted.
C3_ComposableWhenExact ==
    Len(factors) = 2
        => LET s1  == factors[1]
               s2  == factors[2]
               s12 == F32Mul(s1, s2)
           IN  /\ \A pv \in LeafFloats(orig) :
                    ExactTwice(pv[2], s1, s2)
                        => At(LeafFloats(obj), pv[1]) = F32Mul(pv[2], s12)
               /\ \A pv \in StrokeWidths(orig) :
                    ( /\ ExactTwice(pv[2], s1, s2)
                      /\ F32Le(One, F32Mul(pv[2], s1))
                      /\ F32Le(One, F32Mul(F32Mul(pv[2], s1), s2)) )
                        => At(StrokeWidths(obj), pv[1]) = F32Mul(pv[2], s12)

\* C3 witness: 3.0 scaled by 0.5 and then by 1.5 is 2.25, as 3.0 scaled
\* by 0.75
C3_Witness ==
    /\ obj.ty = "f32"
    /\ orig.v = F(3, 0)
    /\ factors = <<Half, F(3, -1)>>
    /\ obj.v = F(9, -2)

\* C5 (as claimed): every linear-dimension field differs after scale(s)
\* from before it, for any factor other than 1.0 and any initial value.
\* Stated for the finite factors and the finite floating-point values.
C5_EveryFieldChanges ==
    (called /\ last # One /\ IsFinite(last))
        => /\ \A pv \in LeafFloats(prev) :
                IsFinite(pv[2]) => At(LeafFloats(obj), pv[1]) # pv[2]
           /\ \A pv \in StrokeWidths(prev) :
                IsFinite(pv[2]) => At(StrokeWidths(obj), pv[1]) # pv[2]
           /\ \A pv \in LeafU8s(prev) : At(LeafU8s(obj), pv[1]) # pv[2]
           /\ \A pv \in LeafI8s(prev) : At(LeafI8s(obj), pv[1]) # pv[2]

\* C5 (amended): for any factor s other than 1.0, every floating-point
\* linear-dimension field holding a finite non-zero value v for which v * s
\* is exact differs after scale(s) from before it, except a stroke width of
\* 1.0 with v * s < 1.0, which the floor returns to 1.0; zero, non-finite
\* and integer fields may keep their value.
C5_ExactNonZeroFloatsChange ==
    (called /\ ~F32Eq(last, One))
        => /\ \A pv \in LeafFloats(prev) :
                (~IsZero(pv[2]) /\ ExactMul(pv[2], last))
                    => ~F32Eq(At(LeafFloats(obj), pv[1]), pv[2])
           /\ \A pv \in StrokeWidths(prev) :
                ( /\ ~IsZero(pv[2])
                  /\ ExactMul(pv[2], last)
                  /\ ~(pv[2] = One /\ F32Lt(F32Mul(pv[2], last), One)) )
                    => ~F32Eq(At(StrokeWidths(obj), pv[1]), pv[2])

\* C5 witness: the default Style scaled by 0.5; the indent went from 18
\* to 9 and the text cursor's stroke from 2.0 to 1.0
C5_Witness ==
    /\ obj.ty = "Style"
    /\ factors = <<Half>>
    /\ prev.v = StyleDefault
    /\ obj.v.spacing.indent = F(9, 0)
    /\ obj.v.visuals.text_cursor.stroke.width = One

====
